---- MODULE Spec2Model ----
(***************************************************************************)
(* Assignment grading pipeline of the course-support backend:              *)
(*   ResourceMonitor            app/services/resource_monitor.py           *)
(*   AssignmentGradingService   app/services/assignment_grading_service.py *)
(*   ProgressService            app/services/progress_service.py           *)
(*                                                                         *)
(* Conventions of the model                                                *)
(*   - Optional[T] is a set with at most one element: None is {} and a     *)
(*     present value x is {x}.                                             *)
(*   - A submission dict is the sequence of the lengths of its string      *)
(*     answers, keyed "q1", "q2", ...: <<>> is the dict {} and <<3>> is    *)
(*     {"q1": "AAA"}.                                                      *)
(*   - An email is its sequence of characters.                             *)
(*   - Time is the UTC clock in whole seconds (variable now).              *)
(***************************************************************************)
EXTENDS Integers, Sequences, FiniteSets, TLC

VARIABLES
    queue,   \* AssignmentGradingService.queue, a deque of items
    store,   \* files under submissions_dir: path -> submission written there
    rows,    \* table assignment_submissions, in insertion order (id = index)
    now,     \* the UTC clock, in seconds
    call,    \* the last call that returned or raised, until the next call
             \* begins: its arguments, the queue it found (pre), the sample
             \* the monitor drew during it, and what it returned
    handlers, \* request handlers: where each one is in its call, and what
             \* the call holds
    log,     \* the appends, pops and gradings the handlers did, in order,
             \* where they are being logged
    lock     \* the database's write lock is held by a connection that a
             \* call which raised left open

vars == <<queue, store, rows, now, call, handlers, log, lock>>

----------------------------------------------------------------------------
(* Bounds of the model *)

MaxQueue == 2

MaxTime == 1

MaxAnswerLen == 1495

----------------------------------------------------------------------------
(* Values *)

None == {}

Some(x) == {x}

The(opt) == CHOOSE x \in opt : TRUE

StudentA == <<"a", "@", "t">>

StudentB == <<"b", "@", "t">>

Statuses == {"submitted", "completed"}

\* The dicts the calls are made with: {} and two answers whose serialized
\* lengths are 500 and 1500.
Submissions == {<<>>, <<490>>, <<1490>>}

OptSubmissions == {None} \cup {Some(s) : s \in Submissions}

\* The requests made to submit_assignment: student a submits assignment 8
\* with every status and every payload; student b submits assignment 7
\* with status "submitted" and the 500-character payload.
Requests ==
    {[email |-> StudentA, assignment_id |-> 8, status |-> st, submission |-> sub] :
        st \in Statuses, sub \in OptSubmissions}
    \cup {[email |-> StudentB, assignment_id |-> 7, status |-> "submitted",
           submission |-> Some(<<490>>)]}

\* The arguments of direct calls to the grading service.
ServiceRequests == {r \in Requests : r.status = "submitted" /\ r.submission # None}

\* Python truthiness of an Optional[Dict]: None and {} are both falsy.
Truthy(opt) == opt # None /\ The(opt) # <<>>

----------------------------------------------------------------------------
(* ResourceMonitor *)

\* settings.ASSIGNMENT_RESOURCE_LIMIT, as a percentage (0.2 -> 20)
ASSIGNMENT_RESOURCE_LIMIT == 20

\* One sampling of psutil: either it raises, or it yields cpu and memory
\* utilization in percent.
SampleError == [err |-> TRUE, cpu |-> 0, mem |-> 0]

Sample(c, m) == [err |-> FALSE, cpu |-> c, mem |-> m]

MutIsOverloadedEither(limit, sample) ==
    IF sample.err THEN FALSE
    ELSE sample.cpu >= limit \/ sample.mem >= limit

MutIsOverloadedFailClosed(limit, sample) ==
    IF sample.err THEN TRUE
    ELSE sample.cpu >= limit /\ sample.mem >= limit

\* is_overloaded: cpu/100 >= limit and mem/100 >= limit; any exception -> False
IsOverloaded(limit, sample) ==
    IF sample.err THEN FALSE
    ELSE sample.cpu >= limit /\ sample.mem >= limit

\* Samples drawn by the service model: sampling fails, both utilizations
\* are at the limit, only the CPU is below it.
ServiceSamples ==
    {SampleError,
     Sample(ASSIGNMENT_RESOURCE_LIMIT, ASSIGNMENT_RESOURCE_LIMIT),
     Sample(ASSIGNMENT_RESOURCE_LIMIT - 1, ASSIGNMENT_RESOURCE_LIMIT)}

----------------------------------------------------------------------------
(* Heuristic grader *)

RECURSIVE SumSeq(_)
SumSeq(s) == IF s = <<>> THEN 0 ELSE Head(s) + SumSeq(Tail(s))

RECURSIVE Digits(_)
\* len(str(i)) for i >= 0
Digits(i) == IF i < 10 THEN 1 ELSE 1 + Digits(i \div 10)

RECURSIVE KeysLen(_)
\* The characters of the keys "q1", ..., "qn" together.
KeysLen(n) == IF n = 0 THEN 0 ELSE KeysLen(n - 1) + 1 + Digits(n)

\* len(json.dumps(submission, ensure_ascii=False)) with the default
\* separators ", " and ": ": "{}" is 2 characters; each entry "qi": "..." is
\* the key, its two quotes, ": " and the quoted answer; entries are joined
\* by ", ".
JsonLen(submission) ==
    IF submission = <<>> THEN 2
    ELSE 2 + SumSeq(submission) + KeysLen(Len(submission))
           + 6 * Len(submission) + 2 * (Len(submission) - 1)

MutScoreRound(length) ==
    IF length <= 0 THEN 0
    ELSE IF length < 500 THEN (60 * length + 250) \div 500
    ELSE IF length < 1500 THEN 60 + (30 * (length - 500) + 500) \div 1000
    ELSE 100

MutScoreNoBase(length) ==
    IF length <= 0 THEN 0
    ELSE IF length < 500 THEN (60 * length) \div 500
    ELSE IF length < 1500 THEN (30 * (length - 500)) \div 1000
    ELSE 100

\* _grade, lines 68-77: the score for a serialized length.  int() truncates
\* the float product; on 1..1499 the float result int(60 * (length / 500)),
\* resp. int(30 * ((length - 500) / 1000)), equals the exact quotient below
\* (no length in that range lands on the wrong side of an integer).
ScoreOfLength(length) ==
    IF length <= 0 THEN 0
    ELSE IF length < 500 THEN (60 * length) \div 500
    ELSE IF length < 1500 THEN 60 + (30 * (length - 500)) \div 1000
    ELSE 100

Min(a, b) == IF a <= b THEN a ELSE b

\* The feedback text, as <<fixed wording, measured length>>.
FeedbackOfLength(length) ==
    IF length <= 0 THEN <<"No submission content found.", 0>>
    ELSE <<"Auto-graded based on submission length ({length} chars).", length>>

\* _grade(submission) -> (score, feedback)
Grade(submission) ==
    LET length == JsonLen(submission)
    IN  IF length <= 0
        THEN [score |-> 0, feedback |-> FeedbackOfLength(length)]
        ELSE [score |-> Min(ScoreOfLength(length), 100),
              feedback |-> FeedbackOfLength(length)]

----------------------------------------------------------------------------
(* Submission store *)

RECURSIVE ReplaceAt(_)
\* email.replace("@", "_at_")
ReplaceAt(email) ==
    IF email = <<>> THEN <<>>
    ELSE IF Head(email) = "@"
         THEN <<"_", "a", "t", "_">> \o ReplaceAt(Tail(email))
         ELSE <<Head(email)>> \o ReplaceAt(Tail(email))

\* user_dir / f"assignment-{assignment_id}-{ts}.json", ts = utcnow to the second
SubmissionPath(email, assignment_id, t) ==
    [dir |-> ReplaceAt(email), assignment_id |-> assignment_id, ts |-> t]

\* str(path)
PathStr(path) == [str |-> path]

\* save_submission: write_text creates or overwrites the file at the path.
WriteFile(files, path, submission) ==
    [p \in DOMAIN files \cup {path} |-> IF p = path THEN submission ELSE files[p]]

----------------------------------------------------------------------------
(* Grading queue *)

Item(email, assignment_id, submission, submission_path, t) ==
    [email |-> email,
     assignment_id |-> assignment_id,
     submission |-> submission,
     submission_path |-> submission_path,
     queued_at |-> t]

MutGradedWrongIdentity(item, t) ==
    LET g == Grade(item.submission)
    IN  [email |-> item.email,
         assignment_id |-> 0,
         score |-> g.score,
         feedback |-> g.feedback,
         graded_at |-> t,
         submission_path |-> PathStr(item.submission_path)]

\* process_next, lines 48-57: the result built for a dequeued item
Graded(item, t) ==
    LET g == Grade(item.submission)
    IN  [email |-> item.email,
         assignment_id |-> item.assignment_id,
         score |-> g.score,
         feedback |-> g.feedback,
         graded_at |-> t,
         submission_path |-> PathStr(item.submission_path)]

----------------------------------------------------------------------------
(* Table assignment_submissions *)

RowMatches(row, email, assignment_id) ==
    row.student_email = email /\ row.assignment_id = assignment_id

HasRow(rs, email, assignment_id) ==
    \E i \in DOMAIN rs : RowMatches(rs[i], email, assignment_id)

NewRow(email, assignment_id, status, t) ==
    [student_email |-> email,
     assignment_id |-> assignment_id,
     status |-> status,
     score |-> None,
     submitted_at |-> Some(t),
     graded_at |-> None,
     feedback |-> None,
     submission_path |-> None]

MutUpsertReplacesRow(rs, email, assignment_id, status, t) ==
    IF HasRow(rs, email, assignment_id)
    THEN [i \in DOMAIN rs |->
            IF RowMatches(rs[i], email, assignment_id)
            THEN NewRow(email, assignment_id, status, t)
            ELSE rs[i]]
    ELSE Append(rs, NewRow(email, assignment_id, status, t))

MutUpsertAlwaysInserts(rs, email, assignment_id, status, t) ==
    Append(rs, NewRow(email, assignment_id, status, t))

\* INSERT ... ON CONFLICT(student_email, assignment_id) DO UPDATE SET
\*   status = excluded.status, submitted_at = CURRENT_TIMESTAMP
Upsert(rs, email, assignment_id, status, t) ==
    IF HasRow(rs, email, assignment_id)
    THEN [i \in DOMAIN rs |->
            IF RowMatches(rs[i], email, assignment_id)
            THEN [rs[i] EXCEPT !.status = status, !.submitted_at = Some(t)]
            ELSE rs[i]]
    ELSE Append(rs, NewRow(email, assignment_id, status, t))

\* UPDATE assignment_submissions SET submission_path = ? WHERE ...
UpdatePath(rs, email, assignment_id, pathstr) ==
    [i \in DOMAIN rs |->
        IF RowMatches(rs[i], email, assignment_id)
        THEN [rs[i] EXCEPT !.submission_path = Some(pathstr)]
        ELSE rs[i]]

MutPersistGradeNoGradedAt(rs, result) ==
    [i \in DOMAIN rs |->
        IF RowMatches(rs[i], result.email, result.assignment_id)
        THEN [rs[i] EXCEPT
                !.status = "completed",
                !.score = Some(result.score),
                !.feedback = Some(result.feedback),
                !.submission_path =
                    IF rs[i].submission_path = None
                    THEN Some(result.submission_path)
                    ELSE rs[i].submission_path]
        ELSE rs[i]]

MutPersistGradeKeepsStatus(rs, result) ==
    [i \in DOMAIN rs |->
        IF RowMatches(rs[i], result.email, result.assignment_id)
        THEN [rs[i] EXCEPT
                !.score = Some(result.score),
                !.feedback = Some(result.feedback),
                !.graded_at = Some(result.graded_at),
                !.submission_path =
                    IF rs[i].submission_path = None
                    THEN Some(result.submission_path)
                    ELSE rs[i].submission_path]
        ELSE rs[i]]

MutPersistGradeOverwritesPath(rs, result) ==
    [i \in DOMAIN rs |->
        IF RowMatches(rs[i], result.email, result.assignment_id)
        THEN [rs[i] EXCEPT
                !.status = "completed",
                !.score = Some(result.score),
                !.feedback = Some(result.feedback),
                !.graded_at = Some(result.graded_at),
                !.submission_path = Some(result.submission_path)]
        ELSE rs[i]]

MutPersistGradeAddsScore(rs, result) ==
    [i \in DOMAIN rs |->
        IF RowMatches(rs[i], result.email, result.assignment_id)
        THEN [rs[i] EXCEPT
                !.status = "completed",
                !.score = IF rs[i].score = None
                          THEN Some(result.score)
                          ELSE Some(The(rs[i].score) + result.score),
                !.feedback = Some(result.feedback),
                !.graded_at = Some(result.graded_at),
                !.submission_path =
                    IF rs[i].submission_path = None
                    THEN Some(result.submission_path)
                    ELSE rs[i].submission_path]
        ELSE rs[i]]

\* _persist_grade: UPDATE ... SET status = 'completed', score, feedback,
\* graded_at, submission_path = COALESCE(submission_path, ?) WHERE ...
PersistGrade(rs, result) ==
    [i \in DOMAIN rs |->
        IF RowMatches(rs[i], result.email, result.assignment_id)
        THEN [rs[i] EXCEPT
                !.status = "completed",
                !.score = Some(result.score),
                !.feedback = Some(result.feedback),
                !.graded_at = Some(result.graded_at),
                !.submission_path =
                    IF rs[i].submission_path = None
                    THEN Some(result.submission_path)
                    ELSE rs[i].submission_path]
        ELSE rs[i]]

----------------------------------------------------------------------------
(* Calls, as the steps a request handler takes through them.  A step is  *)
(* what the code does between two points where another handler, or the   *)
(* clock, can get in: the file write, the committed transaction, an      *)
(* operation on the deque, the monitor's sampling wait.                   *)

NoCall == [op |-> "none"]

\* The request handlers that may run at once.
Handlers == {1, 2}

\* The handler of the deployed program: the endpoint is a coroutine that
\* calls submit_assignment without awaiting inside it, so the event loop
\* runs one call at a time.
Loop == 1

\* A handler that is in no call.  In a call: the operation and its
\* arguments (req), the queue, table and store the call found (pre, rows0,
\* store0), the path it saved to, the item it appended (own), the sample
\* the monitor drew, the item it popped, the result of process_next (ret),
\* the dict enqueue returned (grading), the exception raised (fault), and
\* whether the call repeats the _persist_grade before it (again).
Idle ==
    [pc |-> "idle", op |-> "none", req |-> None, pre |-> <<>>, rows0 |-> <<>>,
     store0 |-> <<>>, saved |-> None, own |-> None, sample |-> None,
     item |-> None, ret |-> None, grading |-> None, fault |-> "none",
     again |-> FALSE]

Init ==
    /\ queue = <<>>
    /\ store = <<>>
    /\ rows = <<>>
    /\ now = 0
    /\ call = NoCall
    /\ handlers = [h \in Handlers |-> Idle]
    /\ log = [on |-> FALSE, events |-> <<>>]
    /\ lock = FALSE

\* The same state, with the deque operations being logged.
TraceInit ==
    /\ queue = <<>>
    /\ store = <<>>
    /\ rows = <<>>
    /\ now = 0
    /\ call = NoCall
    /\ handlers = [h \in Handlers |-> Idle]
    /\ log = [on |-> TRUE, events |-> <<>>]
    /\ lock = FALSE

\* The log entries of one kind, in order.
Logged(kind) == SelectSeq(log.events, LAMBDA e : e.kind = kind)

\* The log after a deque operation.
Record(kind, item) ==
    IF log.on
    THEN [log EXCEPT !.events = Append(@, [kind |-> kind, item |-> item])]
    ELSE log

\* The model takes a call that appends only while there is room for it.
Room ==
    IF log.on THEN Len(Logged("append")) < MaxQueue ELSE Len(queue) < MaxQueue

\* One second passes.
Tick ==
    /\ now < MaxTime
    /\ now' = now + 1
    /\ UNCHANGED <<queue, store, rows, call, handlers, log, lock>>

\* The handlers once handler h has entered a call: it notes the queue, the
\* table and the store it found.
Entered(h, op, req, saved, pc) ==
    [handlers EXCEPT ![h] =
        [Idle EXCEPT !.pc = pc, !.op = op, !.req = req, !.saved = saved,
                     !.pre = queue, !.rows0 = rows, !.store0 = store]]

\* progress_service.submit_assignment(email, assignment_id, status, submission)
\* is called with one of the requests; line 245: if submission.
SubmitBegin(h) ==
    /\ handlers[h].pc = "idle"
    /\ \E req \in Requests :
        /\ Truthy(req.submission) => Room
        /\ handlers' = Entered(h, "submit", Some(req), None,
                               IF Truthy(req.submission) THEN "save" ELSE "upsert")
    /\ call' = NoCall
    /\ UNCHANGED <<queue, store, rows, now, log, lock>>

\* grading_service.save_submission(email, assignment_id, submission) is
\* called on its own.
SaveBegin(h) ==
    /\ handlers[h].pc = "idle"
    /\ \E req \in ServiceRequests :
        handlers' = Entered(h, "save_submission", Some(req), None, "save")
    /\ call' = NoCall
    /\ UNCHANGED <<queue, store, rows, now, log, lock>>

\* save_submission, lines 80-86: the file name is stamped with utcnow() to
\* the second and write_text creates or overwrites the file.
SaveSubmission(h) ==
    /\ handlers[h].pc = "save"
    /\ LET req == The(handlers[h].req)
           path == SubmissionPath(req.email, req.assignment_id, now)
       IN  /\ store' = WriteFile(store, path, The(req.submission))
           /\ handlers' = [handlers EXCEPT
                              ![h].saved = Some(path),
                              ![h].pc = IF handlers[h].op = "submit"
                                        THEN "upsert" ELSE "return"]
    /\ UNCHANGED <<queue, rows, now, call, log, lock>>

\* submit_assignment, lines 248-267: the upsert stamped CURRENT_TIMESTAMP,
\* the path update if a file was saved, and the commit of both.  sqlite
\* admits one writing connection: the INSERT passes only while no other
\* connection holds the write lock.
SubmitUpsert(h) ==
    /\ handlers[h].pc = "upsert"
    /\ ~lock
    /\ LET req == The(handlers[h].req)
           rs1 == Upsert(rows, req.email, req.assignment_id, req.status, now)
       IN  rows' = IF handlers[h].saved # None
                   THEN UpdatePath(rs1, req.email, req.assignment_id,
                                   PathStr(The(handlers[h].saved)))
                   ELSE rs1
    /\ handlers' = [handlers EXCEPT ![h].pc =
                        IF Truthy(The(handlers[h].req).submission)
                        THEN "append" ELSE "return"]
    /\ UNCHANGED <<queue, store, now, call, log, lock>>

\* grading_service.enqueue(email, assignment_id, submission, submission_path)
\* is called on a service used on its own; the path is one save_submission
\* returns for this student and assignment, now or earlier.
EnqueueBegin(h) ==
    /\ handlers[h].pc = "idle"
    /\ Room
    /\ \E req \in ServiceRequests, ts \in 0..now :
        handlers' = Entered(h, "enqueue", Some(req),
                            Some(SubmissionPath(req.email, req.assignment_id, ts)),
                            "append")
    /\ call' = NoCall
    /\ UNCHANGED <<queue, store, rows, now, log, lock>>

MutHandlerAppendAtHead(h) ==
    /\ handlers[h].pc = "append"
    /\ LET req == The(handlers[h].req)
           item == Item(req.email, req.assignment_id, The(req.submission),
                        The(handlers[h].saved), now)
       IN  /\ queue' = <<item>> \o queue
           /\ log' = Record("append", item)
           /\ handlers' = [handlers EXCEPT ![h].own = Some(item),
                                           ![h].pc = "check"]
    /\ UNCHANGED <<store, rows, now, call, lock>>

\* enqueue, lines 25-32: build the item, stamped utcnow(), and
\* self.queue.append(item).
HandlerAppend(h) ==
    /\ handlers[h].pc = "append"
    /\ LET req == The(handlers[h].req)
           item == Item(req.email, req.assignment_id, The(req.submission),
                        The(handlers[h].saved), now)
       IN  /\ queue' = Append(queue, item)
           /\ log' = Record("append", item)
           /\ handlers' = [handlers EXCEPT ![h].own = Some(item),
                                           ![h].pc = "check"]
    /\ UNCHANGED <<store, rows, now, call, lock>>

\* grading_service.process_next() is called directly.
ProcessNextBegin(h) ==
    /\ handlers[h].pc = "idle"
    /\ handlers' = Entered(h, "process_next", None, None, "check")
    /\ call' = NoCall
    /\ UNCHANGED <<queue, store, rows, now, log, lock>>

\* Where process_next returns to: its caller, or enqueue at line 34.
After(h) == IF handlers[h].op = "process_next" THEN "return" ELSE "len"

MutHandlerCheckMonitorFirst(h) ==
    /\ handlers[h].pc = "check"
    /\ handlers' = [handlers EXCEPT ![h].pc = "sample"]
    /\ UNCHANGED <<queue, store, rows, now, call, log, lock>>

MutHandlerCheckLeavesLast(h) ==
    /\ handlers[h].pc = "check"
    /\ handlers' = [handlers EXCEPT ![h].pc =
                        IF Len(queue) <= 1 THEN After(h) ELSE "sample"]
    /\ UNCHANGED <<queue, store, rows, now, call, log, lock>>

\* process_next, lines 42-43: if not self.queue: return None
HandlerCheck(h) ==
    /\ handlers[h].pc = "check"
    /\ handlers' = [handlers EXCEPT ![h].pc =
                        IF queue = <<>> THEN After(h) ELSE "sample"]
    /\ UNCHANGED <<queue, store, rows, now, call, log, lock>>

MutHandlerSampleIgnoresLoad(h) ==
    /\ handlers[h].pc = "sample"
    /\ \E sample \in ServiceSamples :
          handlers' = [handlers EXCEPT ![h].sample = Some(sample),
                                       ![h].pc = "pop"]
    /\ UNCHANGED <<queue, store, rows, now, call, log, lock>>

\* process_next, lines 44-45: if self.monitor.is_overloaded(): return None.
\* The monitor waits 100 ms in cpu_percent and draws one of the samples.
HandlerSample(h) ==
    /\ handlers[h].pc = "sample"
    /\ \E sample \in ServiceSamples :
          handlers' = [handlers EXCEPT
                          ![h].sample = Some(sample),
                          ![h].pc = IF IsOverloaded(ASSIGNMENT_RESOURCE_LIMIT, sample)
                                    THEN After(h) ELSE "pop"]
    /\ UNCHANGED <<queue, store, rows, now, call, log, lock>>

MutHandlerPopPeeks(h) ==
    /\ handlers[h].pc = "pop"
    /\ IF queue = <<>>
       THEN /\ handlers' = [handlers EXCEPT ![h].pc = "raised",
                                            ![h].fault = "IndexError"]
            /\ UNCHANGED <<queue, log, lock>>
       ELSE /\ queue' = queue
            /\ log' = Record("pop", Head(queue))
            /\ handlers' = [handlers EXCEPT ![h].pc = "grade",
                                            ![h].item = Some(Head(queue))]
    /\ UNCHANGED <<store, rows, now, call, lock>>

MutHandlerPopLifo(h) ==
    /\ handlers[h].pc = "pop"
    /\ IF queue = <<>>
       THEN /\ handlers' = [handlers EXCEPT ![h].pc = "raised",
                                            ![h].fault = "IndexError"]
            /\ UNCHANGED <<queue, log, lock>>
       ELSE /\ queue' = SubSeq(queue, 1, Len(queue) - 1)
            /\ log' = Record("pop", queue[Len(queue)])
            /\ handlers' = [handlers EXCEPT ![h].pc = "grade",
                                            ![h].item = Some(queue[Len(queue)])]
    /\ UNCHANGED <<store, rows, now, call, lock>>

MutHandlerPopAll(h) ==
    /\ handlers[h].pc = "pop"
    /\ IF queue = <<>>
       THEN /\ handlers' = [handlers EXCEPT ![h].pc = "raised",
                                            ![h].fault = "IndexError"]
            /\ UNCHANGED <<queue, log, lock>>
       ELSE /\ queue' = <<>>
            /\ log' = Record("pop", Head(queue))
            /\ handlers' = [handlers EXCEPT ![h].pc = "grade",
                                            ![h].item = Some(Head(queue))]
    /\ UNCHANGED <<store, rows, now, call, lock>>

\* process_next, line 47: item = self.queue.popleft(), which raises
\* IndexError on a deque that is empty by now.
HandlerPop(h) ==
    /\ handlers[h].pc = "pop"
    /\ IF queue = <<>>
       THEN /\ handlers' = [handlers EXCEPT ![h].pc = "raised",
                                            ![h].fault = "IndexError"]
            /\ UNCHANGED <<queue, log, lock>>
       ELSE /\ queue' = Tail(queue)
            /\ log' = Record("pop", Head(queue))
            /\ handlers' = [handlers EXCEPT ![h].pc = "grade",
                                            ![h].item = Some(Head(queue))]
    /\ UNCHANGED <<store, rows, now, call, lock>>

\* process_next, lines 48-57: grade the popped item and build the result,
\* stamped utcnow().
HandlerGrade(h) ==
    /\ handlers[h].pc = "grade"
    /\ log' = Record("grade", The(handlers[h].item))
    /\ handlers' = [handlers EXCEPT
                       ![h].pc = After(h),
                       ![h].ret = Some(Graded(The(handlers[h].item), now))]
    /\ UNCHANGED <<queue, store, rows, now, call, lock>>

MutHandlerLenBeforeDrain(h) ==
    /\ handlers[h].pc = "len"
    /\ handlers' = [handlers EXCEPT
                       ![h].grading = Some([queued |-> Len(handlers[h].pre) + 1,
                                            processed |-> handlers[h].ret # None,
                                            result |-> handlers[h].ret]),
                       ![h].pc = IF handlers[h].op = "submit" /\ handlers[h].ret # None
                                 THEN "persist" ELSE "return"]
    /\ UNCHANGED <<queue, store, rows, now, call, log, lock>>

\* enqueue, lines 34-38: the dict returned, "queued" being len(self.queue)
\* read now; submit_assignment, line 272: if grading_result.get("result").
HandlerLen(h) ==
    /\ handlers[h].pc = "len"
    /\ handlers' = [handlers EXCEPT
                       ![h].grading = Some([queued |-> Len(queue),
                                            processed |-> handlers[h].ret # None,
                                            result |-> handlers[h].ret]),
                       ![h].pc = IF handlers[h].op = "submit" /\ handlers[h].ret # None
                                 THEN "persist" ELSE "return"]
    /\ UNCHANGED <<queue, store, rows, now, call, log, lock>>

\* The result a caller of process_next holds and may hand to _persist_grade
\* (once, or again).  A call that raised returns nothing: its caller holds
\* no result.
HeldResult ==
    IF call.op = "process_next" THEN call.ret
    ELSE IF call.op = "_persist_grade" THEN Some(call.result)
    ELSE None

\* progress_service._persist_grade(result) is called with the held result.
PersistBegin(h) ==
    /\ HeldResult # None
    /\ handlers[h].pc = "idle"
    /\ handlers' = [Entered(h, "_persist_grade", None, None, "persist") EXCEPT
                        ![h].ret = HeldResult,
                        ![h].again = (call.op = "_persist_grade")]
    /\ call' = NoCall
    /\ UNCHANGED <<queue, store, rows, now, log, lock>>

\* _persist_grade, lines 280-304: the UPDATE and its commit, which pass
\* only while no other connection holds the write lock.
HandlerPersist(h) ==
    /\ handlers[h].pc = "persist"
    /\ ~lock
    /\ rows' = PersistGrade(rows, The(handlers[h].ret))
    /\ handlers' = [handlers EXCEPT ![h].pc = "return"]
    /\ UNCHANGED <<queue, store, now, call, log, lock>>

\* The step of a call that raises, if one does.  "connect" is
\* get_db_connection raising; "dumps" is json.dumps raising in
\* save_submission (nothing written), "open" is write_text failing before
\* the file is opened, "write" is write_text failing after it truncated the
\* file; "insert", "update" and "commit" are the statements of
\* submit_assignment, lines 248-266, raising; "persist" is the UPDATE or
\* commit of _persist_grade raising; "locked" is sqlite's "database is
\* locked", raised by a write statement while another connection holds the
\* write lock; "IndexError" is popleft on an empty deque.
Faults ==
    {"none", "connect", "dumps", "open", "write", "insert", "update", "commit",
     "persist", "locked", "IndexError"}

SaveFaults == {"dumps", "open", "write"}

UpsertFaults == {"insert", "update", "commit", "locked"}

PersistFaults == {"connect", "persist", "locked"}

\* What a write_text that failed midway leaves at its path: not the JSON of
\* any submission.
TornFile == <<0 - 1>>

\* get_db_connection raises (submit_assignment, line 241), before anything
\* is saved or written.
FaultConnect(h) ==
    /\ handlers[h].op = "submit"
    /\ handlers[h].pc = IF Truthy(The(handlers[h].req).submission)
                        THEN "save" ELSE "upsert"
    /\ handlers' = [handlers EXCEPT ![h].pc = "raised", ![h].fault = "connect"]
    /\ UNCHANGED <<queue, store, rows, now, call, log, lock>>

MutFaultSaveUpserts(h) ==
    /\ handlers[h].pc = "save"
    /\ \E fault \in SaveFaults :
        LET req == The(handlers[h].req)
            path == SubmissionPath(req.email, req.assignment_id, now)
        IN  /\ store' = IF fault = "write"
                        THEN WriteFile(store, path, TornFile) ELSE store
            /\ rows' = Upsert(rows, req.email, req.assignment_id, req.status, now)
            /\ handlers' = [handlers EXCEPT ![h].pc = "raised",
                                            ![h].fault = fault]
    /\ UNCHANGED <<queue, now, call, log, lock>>

\* save_submission raises (submit_assignment, line 246).  There is no
\* try/except around it: the upsert is never executed, so nothing is
\* committed and nothing enqueued.  The connection opened at line 241 has
\* run no statement and holds no lock.
FaultSave(h) ==
    /\ handlers[h].pc = "save"
    /\ \E fault \in SaveFaults :
        LET req == The(handlers[h].req)
            path == SubmissionPath(req.email, req.assignment_id, now)
        IN  /\ store' = IF fault = "write"
                        THEN WriteFile(store, path, TornFile) ELSE store
            /\ rows' = rows
            /\ handlers' = [handlers EXCEPT ![h].pc = "raised",
                                            ![h].fault = fault]
    /\ UNCHANGED <<queue, now, call, log, lock>>

\* The INSERT, the path UPDATE or the commit of submit_assignment raises
\* (lines 248-266), after the file was saved: nothing is committed and
\* nothing enqueued.  There is no try/finally: the connection is left open
\* (line 267 is not reached), and it keeps the write lock if the statement
\* that failed, or one before it, had taken it and sqlite did not roll the
\* transaction back.  While another connection holds the lock the INSERT
\* raises "database is locked".
FaultUpsert(h) ==
    /\ handlers[h].pc = "upsert"
    /\ rows' = rows
    /\ \E fault \in UpsertFaults, held \in BOOLEAN :
        /\ lock => (fault \in {"insert", "locked"} /\ held)
        /\ ~lock => fault # "locked"
        /\ fault = "update" => handlers[h].saved # None
        /\ lock' = held
        /\ handlers' = [handlers EXCEPT ![h].pc = "raised",
                                        ![h].fault = fault]
    /\ UNCHANGED <<queue, store, now, call, log>>

\* _persist_grade raises (lines 282-303; called at line 273 or by hand).
\* In submit_assignment this is after the upsert and the path update were
\* committed (line 266) and after enqueue popped and graded the head: the
\* result is dropped with the exception.  The UPDATE is not committed, and
\* the connection is left open (line 304 is not reached), with the write
\* lock if the UPDATE had taken it.
FaultPersist(h) ==
    /\ handlers[h].pc = "persist"
    /\ queue' = queue
    /\ \E fault \in PersistFaults, held \in BOOLEAN :
        /\ lock => held
        /\ ~lock => fault # "locked"
        /\ fault = "connect" => held = lock
        /\ lock' = held
        /\ handlers' = [handlers EXCEPT ![h].pc = "raised",
                                        ![h].fault = fault]
    /\ UNCHANGED <<store, rows, now, call, log>>

\* The connection a raised call left open is finalised by the garbage
\* collector, once the exception that refers to it is gone: sqlite rolls
\* its transaction back and frees the write lock.
Collect ==
    /\ lock
    /\ \A h \in Handlers : handlers[h].pc # "raised"
    /\ lock' = FALSE
    /\ UNCHANGED <<queue, store, rows, now, call, handlers, log>>

\* Another method of ProgressService that writes the same database
\* (get_or_create_student, record_page_view, record_bot_interaction, lines
\* 32-102) is called between two calls and raises inside its transaction.
\* It has no try/finally either: its connection is left open with the
\* write lock.  It writes none of the rows of assignment_submissions.
FaultOtherWrite ==
    /\ ~lock
    /\ \A h \in Handlers : handlers[h].pc = "idle"
    /\ lock' = TRUE
    /\ UNCHANGED <<queue, store, rows, now, call, handlers, log>>

\* What the call of handler h leaves to its caller: the value returned or
\* the exception, with the arguments and what the call found and drew.
Outcome(h) ==
    LET c == handlers[h]
    IN  IF c.pc = "raised" /\ c.op = "submit"
        THEN [op |-> "submit_raised", pre |-> c.pre,
              email |-> The(c.req).email,
              assignment_id |-> The(c.req).assignment_id,
              status |-> The(c.req).status,
              submission |-> The(c.req).submission,
              sample |-> c.sample, saved |-> c.saved, item |-> c.own,
              fault |-> c.fault, lost |-> c.ret]
        ELSE IF c.pc = "raised"
        THEN [op |-> "raised", in |-> c.op, pre |-> c.pre, item |-> c.own,
              sample |-> c.sample, fault |-> c.fault, lost |-> c.ret]
        ELSE IF c.op = "submit"
        THEN [op |-> "submit", pre |-> c.pre,
              email |-> The(c.req).email,
              assignment_id |-> The(c.req).assignment_id,
              status |-> The(c.req).status,
              submission |-> The(c.req).submission,
              sample |-> c.sample, saved |-> c.saved, item |-> c.own,
              ret |-> [status |-> The(c.req).status,
                       assignment_id |-> The(c.req).assignment_id,
                       grading |-> c.grading]]
        ELSE IF c.op = "enqueue"
        THEN [op |-> "enqueue", pre |-> c.pre, item |-> The(c.own),
              sample |-> c.sample, ret |-> The(c.grading)]
        ELSE IF c.op = "process_next"
        THEN [op |-> "process_next", pre |-> c.pre, sample |-> c.sample,
              ret |-> c.ret]
        ELSE IF c.op = "save_submission"
        THEN [op |-> "save_submission", email |-> The(c.req).email,
              assignment_id |-> The(c.req).assignment_id,
              submission |-> The(c.req).submission, ret |-> The(c.saved)]
        ELSE [op |-> "_persist_grade", result |-> The(c.ret)]

\* The call returns, or lets its exception out.
HandlerReturn(h) ==
    /\ handlers[h].pc \in {"return", "raised"}
    /\ call' = Outcome(h)
    /\ handlers' = [handlers EXCEPT ![h] = Idle]
    /\ UNCHANGED <<queue, store, rows, now, log, lock>>

----------------------------------------------------------------------------
(* Specifications *)

\* The deployed program: submissions through the progress service, manual
\* draining, persisting its result, while the clock moves on.
Next ==
    \/ SubmitBegin(Loop)
    \/ ProcessNextBegin(Loop)
    \/ PersistBegin(Loop)
    \/ SaveSubmission(Loop)
    \/ SubmitUpsert(Loop)
    \/ HandlerAppend(Loop)
    \/ HandlerCheck(Loop)
    \/ HandlerSample(Loop)
    \/ HandlerPop(Loop)
    \/ HandlerGrade(Loop)
    \/ HandlerLen(Loop)
    \/ HandlerPersist(Loop)
    \/ HandlerReturn(Loop)
    \/ Tick

Spec == Init /\ [][Next]_vars

\* The requests of one student for one assignment, with the default status.
ClockRequests ==
    [email : {StudentA}, assignment_id : {8}, status : {"submitted"},
     submission : {None, Some(<<490>>), Some(<<1490>>)}]

\* submit_assignment is called by the one student.
ClockSubmitBegin(h) ==
    /\ handlers[h].pc = "idle"
    /\ \E req \in ClockRequests :
        /\ Truthy(req.submission) => Room
        /\ handlers' = Entered(h, "submit", Some(req), None,
                               IF Truthy(req.submission) THEN "save" ELSE "upsert")
    /\ call' = NoCall
    /\ UNCHANGED <<queue, store, rows, now, log, lock>>

\* The deployed program over several seconds: one student resubmitting.
ClockNext ==
    \/ ClockSubmitBegin(Loop)
    \/ ProcessNextBegin(Loop)
    \/ PersistBegin(Loop)
    \/ SaveSubmission(Loop)
    \/ SubmitUpsert(Loop)
    \/ HandlerAppend(Loop)
    \/ HandlerCheck(Loop)
    \/ HandlerSample(Loop)
    \/ HandlerPop(Loop)
    \/ HandlerGrade(Loop)
    \/ HandlerLen(Loop)
    \/ HandlerPersist(Loop)
    \/ HandlerReturn(Loop)
    \/ Tick

ClockSpec == Init /\ [][ClockNext]_vars

\* The step of a direct process_next at which the monitor is found not
\* overloaded.
Drain ==
    /\ handlers[Loop].op = "process_next"
    /\ HandlerSample(Loop)
    /\ handlers'[Loop].pc = "pop"

\* A step inside a call that has begun, up to its return.
CallStep ==
    \/ SaveSubmission(Loop)
    \/ SubmitUpsert(Loop)
    \/ HandlerAppend(Loop)
    \/ HandlerCheck(Loop)
    \/ HandlerSample(Loop)
    \/ HandlerPop(Loop)
    \/ HandlerGrade(Loop)
    \/ HandlerLen(Loop)
    \/ HandlerPersist(Loop)
    \/ HandlerReturn(Loop)

\* One student resubmitting within one second, with manual draining and
\* persisting.
DrainNext ==
    \/ ClockSubmitBegin(Loop)
    \/ ProcessNextBegin(Loop)
    \/ PersistBegin(Loop)
    \/ SaveSubmission(Loop)
    \/ SubmitUpsert(Loop)
    \/ HandlerAppend(Loop)
    \/ HandlerCheck(Loop)
    \/ HandlerSample(Loop)
    \/ HandlerPop(Loop)
    \/ HandlerGrade(Loop)
    \/ HandlerLen(Loop)
    \/ HandlerPersist(Loop)
    \/ HandlerReturn(Loop)

\* The deployed program where every call runs to its end, process_next
\* keeps being invoked and the monitor is not overloaded at some invocation
\* again and again.
DrainSpec ==
    /\ Init /\ [][DrainNext]_vars
    /\ WF_vars(CallStep)
    /\ SF_vars(ProcessNextBegin(Loop))
    /\ SF_vars(Drain)

\* The grading service on its own, as its unit test drives it.
ServiceNext ==
    \/ SaveBegin(Loop)
    \/ EnqueueBegin(Loop)
    \/ ProcessNextBegin(Loop)
    \/ SaveSubmission(Loop)
    \/ HandlerAppend(Loop)
    \/ HandlerCheck(Loop)
    \/ HandlerSample(Loop)
    \/ HandlerPop(Loop)
    \/ HandlerGrade(Loop)
    \/ HandlerLen(Loop)
    \/ HandlerReturn(Loop)
    \/ Tick

ServiceSpec == Init /\ [][ServiceNext]_vars

\* Submissions only, through the progress service or straight into the
\* grading service: nobody calls process_next by hand.
IntakeNext ==
    \/ ClockSubmitBegin(Loop)
    \/ EnqueueBegin(Loop)
    \/ SaveSubmission(Loop)
    \/ SubmitUpsert(Loop)
    \/ HandlerAppend(Loop)
    \/ HandlerCheck(Loop)
    \/ HandlerSample(Loop)
    \/ HandlerPop(Loop)
    \/ HandlerGrade(Loop)
    \/ HandlerLen(Loop)
    \/ HandlerPersist(Loop)
    \/ HandlerReturn(Loop)
    \/ Tick

IntakeSpec == Init /\ [][IntakeNext]_vars

----------------------------------------------------------------------------
(* The pure functions, applied to inputs drawn from bounded sets *)

\* Dicts of one answer of every length up to MaxAnswerLen, the empty dict,
\* a few dicts of two answers and dicts of ten answers (keys "q1".."q10").
GradeInputs ==
    {<<>>} \cup {<<n>> : n \in 0..MaxAnswerLen}
    \cup {<<n, m>> : n \in {0, 240, 740}, m \in {0, 239, 740}}
    \cup {<<n, 1, 1, 1, 1, 1, 1, 1, 1, 1>> : n \in {1, 389, 390, 1390}}

\* service._grade(submission)
GradeCall ==
    \E submission \in GradeInputs :
        /\ call' = [op |-> "_grade", submission |-> submission,
                    ret |-> Grade(submission)]
        /\ UNCHANGED <<queue, store, rows, now, handlers, log, lock>>

GradeSpec == Init /\ [][GradeCall]_vars

\* Limits a ResourceMonitor is constructed with, in percent.
Limits == {0, ASSIGNMENT_RESOURCE_LIMIT, 50, 100}

Percents == {0, 19, 20, 21, 49, 50, 51, 99, 100}

MonitorSamples == {SampleError} \cup {Sample(c, m) : c \in Percents, m \in Percents}

\* ResourceMonitor(limit).is_overloaded()
IsOverloadedCall ==
    \E limit \in Limits, sample \in MonitorSamples :
        /\ call' = [op |-> "is_overloaded", limit |-> limit, sample |-> sample,
                    ret |-> IsOverloaded(limit, sample)]
        /\ UNCHANGED <<queue, store, rows, now, handlers, log, lock>>

MonitorSpec == Init /\ [][IsOverloadedCall]_vars

\* The monitor reports overloaded on every call: the samples on which
\* is_overloaded, with the configured limit, returns True.
OverloadedSamples ==
    {s \in MonitorSamples : IsOverloaded(ASSIGNMENT_RESOURCE_LIMIT, s)}

\* The requests that carry a payload.
PayloadRequests == {req \in Requests : req.submission # None}

\* submit_assignment is called with a payload.
PayloadSubmitBegin(h) ==
    /\ handlers[h].pc = "idle"
    /\ \E req \in PayloadRequests :
        /\ Truthy(req.submission) => Room
        /\ handlers' = Entered(h, "submit", Some(req), None,
                               IF Truthy(req.submission) THEN "save" ELSE "upsert")
    /\ call' = NoCall
    /\ UNCHANGED <<queue, store, rows, now, log, lock>>

\* process_next, lines 44-45, under a monitor that is overloaded.
OverloadedSample(h) ==
    /\ handlers[h].pc = "sample"
    /\ \E sample \in OverloadedSamples :
          handlers' = [handlers EXCEPT
                          ![h].sample = Some(sample),
                          ![h].pc = IF IsOverloaded(ASSIGNMENT_RESOURCE_LIMIT, sample)
                                    THEN After(h) ELSE "pop"]
    /\ UNCHANGED <<queue, store, rows, now, call, log, lock>>

\* Payload-bearing submissions only, from the empty queue and table, while
\* the monitor stays overloaded.
OverloadedNext ==
    \/ PayloadSubmitBegin(Loop)
    \/ OverloadedSample(Loop)
    \/ SaveSubmission(Loop)
    \/ SubmitUpsert(Loop)
    \/ HandlerAppend(Loop)
    \/ HandlerCheck(Loop)
    \/ HandlerLen(Loop)
    \/ HandlerReturn(Loop)
    \/ Tick

OverloadedSpec == Init /\ [][OverloadedNext]_vars

\* The requests of both students with the 500-character payload: student a
\* with either status, student b with the default one.
FaultRequests == {req \in Requests : req.submission = Some(<<490>>)}

\* The arguments of the calls made to enqueue on threads.
ThreadRequests == {req \in ServiceRequests : req.submission = Some(<<490>>)}

\* submit_assignment is called by one of the two students.
FaultSubmitBegin(h) ==
    /\ handlers[h].pc = "idle"
    /\ \E req \in FaultRequests :
        /\ Truthy(req.submission) => Room
        /\ handlers' = Entered(h, "submit", Some(req), None,
                               IF Truthy(req.submission) THEN "save" ELSE "upsert")
    /\ call' = NoCall
    /\ UNCHANGED <<queue, store, rows, now, log, lock>>

\* The deployed program, every submission through the progress service,
\* with manual draining and persisting, where opening the database, the
\* save, the upsert, a grade persistence or another write to the database
\* may fail.
FaultNext ==
    \/ FaultSubmitBegin(Loop)
    \/ ProcessNextBegin(Loop)
    \/ PersistBegin(Loop)
    \/ FaultConnect(Loop)
    \/ FaultSave(Loop)
    \/ FaultUpsert(Loop)
    \/ FaultPersist(Loop)
    \/ FaultOtherWrite
    \/ Collect
    \/ SaveSubmission(Loop)
    \/ SubmitUpsert(Loop)
    \/ HandlerAppend(Loop)
    \/ HandlerCheck(Loop)
    \/ HandlerSample(Loop)
    \/ HandlerPop(Loop)
    \/ HandlerGrade(Loop)
    \/ HandlerLen(Loop)
    \/ HandlerPersist(Loop)
    \/ HandlerReturn(Loop)
    \/ Tick

FaultSpec == Init /\ [][FaultNext]_vars

\* enqueue is called for one of the two students.
ThreadEnqueueBegin(h) ==
    /\ handlers[h].pc = "idle"
    /\ Room
    /\ \E req \in ThreadRequests, ts \in 0..now :
        handlers' = Entered(h, "enqueue", Some(req),
                            Some(SubmissionPath(req.email, req.assignment_id, ts)),
                            "append")
    /\ call' = NoCall
    /\ UNCHANGED <<queue, store, rows, now, log, lock>>

\* enqueue and process_next on threads: no lock guards the deque, so the
\* steps of two handlers interleave.
ThreadNext ==
    \E h \in Handlers :
        \/ ThreadEnqueueBegin(h)
        \/ ProcessNextBegin(h)
        \/ HandlerAppend(h)
        \/ HandlerCheck(h)
        \/ HandlerSample(h)
        \/ HandlerPop(h)
        \/ HandlerGrade(h)
        \/ HandlerLen(h)
        \/ HandlerReturn(h)

\* The grading service called from request handlers on several threads.
ThreadSpec == TraceInit /\ [][ThreadNext]_vars

\* The same calls made one after the other: a handler moves only while
\* every other handler is idle.
SerialNext ==
    \E h \in Handlers :
        /\ \A g \in Handlers \ {h} : handlers[g].pc = "idle"
        /\ \/ EnqueueBegin(h)
           \/ ProcessNextBegin(h)
           \/ HandlerAppend(h)
           \/ HandlerCheck(h)
           \/ HandlerSample(h)
           \/ HandlerPop(h)
           \/ HandlerGrade(h)
           \/ HandlerLen(h)
           \/ HandlerReturn(h)

SerialSpec == TraceInit /\ [][SerialNext]_vars

----------------------------------------------------------------------------
(* Properties *)

\* The monitor reported overloaded during the call c.
Overloaded(c) ==
    c.sample # None /\ IsOverloaded(ASSIGNMENT_RESOURCE_LIMIT, The(c.sample))

\* The result r carries the identity of the queued item it.
ResultIsOf(r, it) ==
    /\ r.email = it.email
    /\ r.assignment_id = it.assignment_id
    /\ r.submission_path = PathStr(it.submission_path)

\* C1: an enqueue during which the monitor reports overloaded removes
\* nothing (the previous head, if any, is still the head), returns
\* processed = false and result = null, and leaves the queue as the previous
\* queue with the new item appended at the tail (depth + 1).
C1_OverloadedEnqueueOnlyAppends ==
    (call.op = "enqueue" /\ Overloaded(call)) =>
        /\ queue = Append(call.pre, call.item)
        /\ Len(queue) = Len(call.pre) + 1
        /\ queue[Len(queue)] = call.item
        /\ (call.pre # <<>> => Head(queue) = Head(call.pre))
        /\ call.ret.processed = FALSE
        /\ call.ret.result = None

C1_Witness ==
    /\ call.op = "enqueue"
    /\ Overloaded(call)
    /\ Len(call.pre) = 1
    /\ Len(queue) = 2
    /\ call.pre[1] # call.item
    /\ call.ret.processed = FALSE

\* C2: an enqueue on an empty queue while the monitor reports not
\* overloaded grades exactly the item just enqueued: processed = true, a
\* non-null result with the item's email, assignment_id and
\* submission_path, and the queue is empty when the call returns.
C2_EnqueueOnEmptyGradesItsItem ==
    (call.op = "enqueue" /\ call.pre = <<>> /\ ~Overloaded(call)) =>
        /\ call.ret.processed = TRUE
        /\ call.ret.result # None
        /\ ResultIsOf(The(call.ret.result), call.item)
        /\ queue = <<>>
        /\ Len(queue) = 0

C2_Witness ==
    /\ call.op = "enqueue"
    /\ call.pre = <<>>
    /\ ~Overloaded(call)
    /\ call.ret.processed = TRUE
    /\ call.item.email = StudentB
    /\ queue = <<>>

\* C3: process_next returns null and leaves the queue as it was whenever the
\* queue is empty or the monitor reports overloaded; on an empty queue the
\* monitor is not consulted.
C3_ProcessNextDefers ==
    call.op = "process_next" =>
        /\ (call.pre = <<>> \/ Overloaded(call)) =>
                (call.ret = None /\ queue = call.pre)
        /\ call.pre = <<>> => call.sample = None

C3_Witness ==
    /\ call.op = "process_next"
    /\ Overloaded(call)
    /\ Len(call.pre) = 2
    /\ queue = call.pre
    /\ call.ret = None

\* C4: process_next on a non-empty queue while the monitor reports not
\* overloaded removes exactly the head, keeps the rest in order, and returns
\* a result with the head's email, assignment_id and submission_path whose
\* score and feedback are the heuristic grade of the head's payload.
C4_ProcessNextGradesHead ==
    (call.op = "process_next" /\ call.pre # <<>> /\ ~Overloaded(call)) =>
        /\ queue = Tail(call.pre)
        /\ Len(queue) = Len(call.pre) - 1
        /\ call.ret # None
        /\ ResultIsOf(The(call.ret), Head(call.pre))
        /\ The(call.ret).score = Grade(Head(call.pre).submission).score
        /\ The(call.ret).feedback = Grade(Head(call.pre).submission).feedback

C4_Witness ==
    /\ call.op = "process_next"
    /\ ~Overloaded(call)
    /\ Len(call.pre) = 2
    /\ call.pre[1].assignment_id # call.pre[2].assignment_id
    /\ call.pre[1].submission # call.pre[2].submission
    /\ queue = <<call.pre[2]>>
    /\ call.ret # None

\* The call that returns, or raises, in a step is a call of op.
Returns(op) == call' # call /\ call'.op = op

\* The queue a returning call drained from, and the result it produced.
DrainBase == IF call'.op = "enqueue" THEN Append(call'.pre, call'.item) ELSE call'.pre

DrainResult == IF call'.op = "enqueue" THEN call'.ret.result ELSE call'.ret

C5_Step ==
    /\ (Returns("enqueue") \/ Returns("process_next")) =>
            \/ DrainResult = None /\ queue' = DrainBase
            \/ /\ DrainResult # None
               /\ DrainBase # <<>>
               /\ queue' = Tail(DrainBase)
               /\ ResultIsOf(The(DrainResult), Head(DrainBase))
    /\ (/\ call.op = "enqueue" /\ call.pre = <<>> /\ ~call.ret.processed
        /\ handlers[Loop].pc = "idle" /\ handlers'[Loop].op = "process_next") =>
            handlers'[Loop].pre = <<call.item>>
    /\ (Returns("process_next") /\ call'.pre # <<>> /\ ~Overloaded(call')) =>
            /\ call'.ret # None
            /\ ResultIsOf(The(call'.ret), Head(call'.pre))
    /\ queue' # queue =>
            \/ /\ handlers[Loop].pc = "append"
               /\ queue' = Append(queue, The(handlers'[Loop].own))
            \/ /\ handlers[Loop].pc = "pop"
               /\ queue' = Tail(queue)
               /\ handlers'[Loop].item = Some(Head(queue))

\* C5: FIFO over any sequence of enqueue and process_next calls: an item
\* enters at the tail only and leaves from the head only, so of two queued
\* items the one enqueued first is graded first; an item deferred at the
\* head by an overloaded enqueue is the one graded, with its own
\* assignment_id, by the next process_next that is not overloaded.
C5_Fifo == [][C5_Step]_vars

C5_Witness ==
    /\ call.op = "process_next"
    /\ ~Overloaded(call)
    /\ Len(call.pre) = 2
    /\ call.pre[1].queued_at < call.pre[2].queued_at
    /\ call.pre[1].assignment_id # call.pre[2].assignment_id
    /\ call.ret # None
    /\ The(call.ret).assignment_id = call.pre[1].assignment_id
    /\ queue = <<call.pre[2]>>

\* C6, as claimed: the "queued" value enqueue returns is the depth after
\* the append and before the drain, previous depth + 1 on every call.
C6_QueuedIsDepthBeforeDrain ==
    call.op = "enqueue" => call.ret.queued = Len(call.pre) + 1

\* C6, amended: the "queued" value enqueue returns is the depth when the
\* call returns, after the drain: previous depth + 1 when the drain was
\* deferred, the previous depth when the drain graded and removed an item.
C6_QueuedIsDepthOnReturn ==
    call.op = "enqueue" =>
        /\ call.ret.queued = Len(queue)
        /\ call.ret.queued =
              IF call.ret.processed THEN Len(call.pre) ELSE Len(call.pre) + 1

C6_Witness ==
    /\ call.op = "enqueue"
    /\ call.ret.processed
    /\ Len(call.pre) = 1
    /\ call.ret.queued = 1

C7_Step ==
    /\ Returns("submit") =>
            IF Truthy(call'.submission)
            THEN LET it == The(call'.item)
                     enq == The(call'.ret.grading)
                     base == Append(call'.pre, it)
                 IN  /\ it = Item(call'.email, call'.assignment_id,
                                  The(call'.submission), The(call'.saved), it.queued_at)
                     /\ queue' \in {base, Tail(base)}
                     /\ Len(queue') >= Len(call'.pre)
                     /\ Len(queue') = Len(call'.pre) => (enq.processed /\ ~Overloaded(call'))
                     /\ Len(queue') = Len(call'.pre) + 1 => (~enq.processed /\ Overloaded(call'))
            ELSE queue' = call'.pre /\ call'.sample = None /\ call'.item = None
    /\ Returns("process_next") =>
            /\ queue' = call'.pre \/ (call'.pre # <<>> /\ queue' = Tail(call'.pre))
            /\ queue' # call'.pre => (call'.ret # None /\ ~Overloaded(call'))
    /\ Returns("_persist_grade") => queue' = handlers[Loop].pre
    /\ queue' # queue =>
            \/ /\ handlers[Loop].pc = "append"
               /\ queue' = Append(queue, The(handlers'[Loop].own))
            \/ /\ handlers[Loop].pc = "pop"
               /\ queue' = Tail(queue)
               /\ ~IsOverloaded(ASSIGNMENT_RESOURCE_LIMIT, The(handlers[Loop].sample))

\* C7: every enqueue grades and removes at most one item, however many are
\* queued and even when the monitor is not overloaded; the queue grows only
\* by the append inside enqueue and shrinks only by a drain that is not
\* overloaded; a status-only submit and grade persistence leave it alone.
C7_OneDrainPerEnqueue == [][C7_Step]_vars

C7_Witness ==
    /\ call.op = "submit"
    /\ Truthy(call.submission)
    /\ ~Overloaded(call)
    /\ The(call.ret.grading).processed
    /\ Len(call.pre) = 1
    /\ Len(queue) = 1
    /\ Head(queue).email = call.email

\* C8: is_overloaded returns true if and only if the sampled CPU fraction
\* and the sampled memory fraction both meet or exceed the limit.
C8_OverloadedIffBoth ==
    call.op = "is_overloaded" =>
        /\ call.ret = TRUE <=>
              (/\ ~call.sample.err
               /\ call.sample.cpu >= call.limit
               /\ call.sample.mem >= call.limit)
        /\ (~call.sample.err /\
            (call.sample.cpu < call.limit \/ call.sample.mem < call.limit))
              => call.ret = FALSE

C8_Witness ==
    /\ call.op = "is_overloaded"
    /\ call.limit = ASSIGNMENT_RESOURCE_LIMIT
    /\ ~call.sample.err
    /\ call.sample.cpu >= call.limit
    /\ call.sample.mem < call.limit
    /\ call.ret = FALSE

\* C9: fail-open monitoring: when sampling raises, the monitor answers "not
\* overloaded", so a process_next or enqueue on a non-empty queue during a
\* monitoring failure returns normally with the grade of the head.
C9_FailOpen ==
    (call.op \in {"enqueue", "process_next"} /\ call.sample = Some(SampleError)) =>
        LET base == IF call.op = "enqueue" THEN Append(call.pre, call.item) ELSE call.pre
            res == IF call.op = "enqueue" THEN call.ret.result ELSE call.ret
        IN  /\ ~Overloaded(call)
            /\ res # None
            /\ ResultIsOf(The(res), Head(base))
            /\ The(res).score = Grade(Head(base).submission).score
            /\ queue = Tail(base)

C9_Witness ==
    /\ call.op = "process_next"
    /\ call.sample = Some(SampleError)
    /\ Len(call.pre) = 2
    /\ call.ret # None
    /\ Len(queue) = 1

\* C10: for every serialized payload length L the score is the reference
\* mapping with floor rounding: 0 if L <= 0; floor(60 L / 500) if
\* 0 < L < 500; 60 + floor(30 (L - 500) / 1000) if 500 <= L < 1500; 100 if
\* L >= 1500; so 59 at 499, 60 at 500, 89 at 1499, 100 at 1500 and 1501.
\* (floor(x / y) = k is stated as k y <= x < (k + 1) y.)
C10_ScoreIsReferenceMapping ==
    call.op = "_grade" =>
        LET L == JsonLen(call.submission)
            sc == call.ret.score
        IN  /\ L <= 0 => sc = 0
            /\ (0 < L /\ L < 500) =>
                    (500 * sc <= 60 * L /\ 60 * L < 500 * (sc + 1))
            /\ (500 <= L /\ L < 1500) =>
                    (/\ 1000 * (sc - 60) <= 30 * (L - 500)
                     /\ 30 * (L - 500) < 1000 * (sc - 60 + 1))
            /\ L >= 1500 => sc = 100
            /\ L = 499 => sc = 59
            /\ L = 500 => sc = 60
            /\ L = 1499 => sc = 89
            /\ L \in {1500, 1501} => sc = 100

C10_Witness ==
    /\ call.op = "_grade"
    /\ JsonLen(call.submission) = 1499
    /\ call.ret.score = 89

\* C11: the score of every _grade call is an integer in 0..100, and of any
\* two _grade calls the one on the payload that serializes no longer scores
\* no higher: L1 <= L2 implies score(L1) <= score(L2), also across the
\* breakpoints at 500 and 1500.
C11_Step ==
    (call'.op = "_grade") =>
        /\ call'.ret.score \in 0..100
        /\ (call.op = "_grade") =>
              /\ (JsonLen(call.submission) <= JsonLen(call'.submission)) =>
                    call.ret.score <= call'.ret.score
              /\ (JsonLen(call'.submission) <= JsonLen(call.submission)) =>
                    call'.ret.score <= call.ret.score

C11_ScoreMonotoneInRange == [][C11_Step]_vars

C11_Witness ==
    /\ call.op = "_grade"
    /\ JsonLen(call.submission) = 500
    /\ call.ret.score = 60

\* No call is under way.
Quiet == \A h \in Handlers : handlers[h].pc = "idle"

\* What the call that returns in a step found when it began.
Found ==
    [queue |-> handlers[Loop].pre, rows |-> handlers[Loop].rows0,
     store |-> handlers[Loop].store0]

\* The row of (email, assignment_id) in the table of the current state.
RowOf(email, assignment_id) ==
    rows[CHOOSE i \in DOMAIN rows : RowMatches(rows[i], email, assignment_id)]

\* The grading result the last call persisted, if it persisted one: the
\* argument of _persist_grade, or the result submit's enqueue returned.
Persisted(c) ==
    IF c.op = "_persist_grade" THEN Some(c.result)
    ELSE IF c.op = "submit" /\ c.ret.grading # None
         THEN The(c.ret.grading).result
         ELSE None

\* C12: in every state reached by submit, process_next and grade
\* persistence calls (no call under way) a row has status completed if and
\* only if a grading result has been persisted into it (its score is
\* non-null), also after a status-only update and after a resubmission of a
\* graded assignment.
C12_CompletedIffGraded ==
    Quiet =>
        \A i \in DOMAIN rows :
            (rows[i].status = "completed") <=> (rows[i].score # None)

GradeFields(row) == <<row.score, row.feedback, row.graded_at>>

\* C13: in every state a row's score, feedback and graded_at are all null
\* or all non-null, and a step changes any of the three in a row only by
\* persisting a grading result for that row; the upsert and the path update
\* of submit leave them as they were.
C13_Step ==
    /\ \A i \in DOMAIN rows' :
          \/ GradeFields(rows'[i]) = <<None, None, None>>
          \/ (rows'[i].score # None /\ rows'[i].feedback # None
                /\ rows'[i].graded_at # None)
    /\ \A i \in DOMAIN rows :
          (GradeFields(rows'[i]) # GradeFields(rows[i])) =>
              /\ handlers[Loop].pc = "persist"
              /\ RowMatches(rows[i], The(handlers[Loop].ret).email,
                            The(handlers[Loop].ret).assignment_id)
    /\ handlers[Loop].pc \in {"save", "upsert"} =>
          \A i \in DOMAIN rows : GradeFields(rows'[i]) = GradeFields(rows[i])
    /\ (Returns("submit") /\ Persisted(call') = None) =>
          \A i \in DOMAIN Found.rows : GradeFields(rows'[i]) = GradeFields(Found.rows[i])

C13_GradeFieldsTogether == [][C13_Step]_vars

C13_Witness ==
    /\ call.op = "submit"
    /\ Persisted(call) = None
    /\ HasRow(rows, call.email, call.assignment_id)
    /\ RowOf(call.email, call.assignment_id).score # None
    /\ RowOf(call.email, call.assignment_id).feedback # None
    /\ RowOf(call.email, call.assignment_id).graded_at # None

\* The row holds the grading result r: completed, with r's score, feedback
\* and graded_at.
RowHoldsResult(row, r) ==
    /\ row.status = "completed"
    /\ row.score = Some(r.score)
    /\ row.feedback = Some(r.feedback)
    /\ row.graded_at = Some(r.graded_at)

\* C14, as claimed: when the enqueue of a payload-bearing submit produced a
\* grading result, on return the row of the submitted (email, assignment_id)
\* is completed and holds the score, feedback and graded_at of that result.
C14_SubmittedRowHoldsResult ==
    (call.op = "submit" /\ Persisted(call) # None) =>
        RowHoldsResult(RowOf(call.email, call.assignment_id), The(Persisted(call)))

\* C14, amended: when the enqueue of a payload-bearing submit produced a
\* grading result, on return the row of the result's own (email,
\* assignment_id), the queue head's, is completed and holds the score,
\* feedback and graded_at of that result.
C14_ResultRowHoldsResult ==
    (call.op = "submit" /\ Persisted(call) # None) =>
        /\ HasRow(rows, The(Persisted(call)).email, The(Persisted(call)).assignment_id)
        /\ RowHoldsResult(RowOf(The(Persisted(call)).email,
                                The(Persisted(call)).assignment_id),
                          The(Persisted(call)))

C14_Witness ==
    /\ call.op = "submit"
    /\ Persisted(call) # None
    /\ The(Persisted(call)).email # call.email
    /\ RowHoldsResult(RowOf(The(Persisted(call)).email,
                            The(Persisted(call)).assignment_id),
                      The(Persisted(call)))
    /\ RowOf(call.email, call.assignment_id).status = "submitted"

\* C15: a submit whose payload was saved upserts the row of its (email,
\* assignment_id) to status submitted before enqueueing, whatever status
\* the caller passed: on return the row is submitted when no grade was
\* persisted into it and completed only when one was, never anything else,
\* and the response echoes the requested status.
C15_PayloadSubmitWritesSubmitted ==
    (call.op = "submit" /\ call.saved # None) =>
        /\ RowOf(call.email, call.assignment_id).status \in {"submitted", "completed"}
        /\ (RowOf(call.email, call.assignment_id).status = "completed") =>
              /\ Persisted(call) # None
              /\ The(Persisted(call)).email = call.email
              /\ The(Persisted(call)).assignment_id = call.assignment_id
        /\ call.ret.status = call.status

\* C16, as claimed: once a row's submission_path is non-null no step
\* changes it, neither a further payload-bearing submit for the same
\* student and assignment nor a grade persistence.
C16_PathFirstWriteWinsStep ==
    \A i \in DOMAIN rows :
        (rows[i].submission_path # None) =>
            rows'[i].submission_path = rows[i].submission_path

C16_PathFirstWriteWins == [][C16_PathFirstWriteWinsStep]_vars

\* C16, amended: a non-null submission_path is changed by no grade
\* persistence and no status-only submit; the only step that changes it is
\* a payload-bearing submit for the row's student and assignment, and every
\* such submit leaves the row with the path of the submission it has just
\* saved, also when it persists the grade of an earlier submission.
C16_Step ==
    /\ \A i \in DOMAIN rows :
          (/\ rows[i].submission_path # None
           /\ rows'[i].submission_path # rows[i].submission_path) =>
              /\ handlers[Loop].op = "submit"
              /\ handlers[Loop].pc = "upsert"
              /\ handlers[Loop].saved # None
              /\ RowMatches(rows[i], The(handlers[Loop].req).email,
                            The(handlers[Loop].req).assignment_id)
    /\ (Returns("submit") /\ call'.saved # None) =>
          \A i \in DOMAIN rows' :
              RowMatches(rows'[i], call'.email, call'.assignment_id) =>
                  rows'[i].submission_path = Some(PathStr(The(call'.saved)))

C16_PathChangedOnlyBySavingSubmit == [][C16_Step]_vars

C16_Witness ==
    /\ call.op = "submit"
    /\ call.saved = Some(SubmissionPath(call.email, call.assignment_id, 1))
    /\ SubmissionPath(call.email, call.assignment_id, 0) \in DOMAIN store
    /\ Persisted(call) # None
    /\ The(Persisted(call)).submission_path =
            PathStr(SubmissionPath(call.email, call.assignment_id, 0))
    /\ RowOf(call.email, call.assignment_id).submission_path =
            Some(PathStr(SubmissionPath(call.email, call.assignment_id, 1)))

\* C17: a submit without a payload skips grading entirely: it saves
\* nothing, enqueues nothing, does not consult the monitor and returns a
\* null grading outcome; the queue and every other row are unchanged, and
\* of the row of its (email, assignment_id) only status and submitted_at
\* change (a missing row is inserted with null grade fields and path).
C17_Step ==
    (Returns("submit") /\ call'.submission = None) =>
        /\ store' = Found.store
        /\ queue' = Found.queue
        /\ call'.saved = None
        /\ call'.item = None
        /\ call'.sample = None
        /\ call'.ret.grading = None
        /\ \A i \in DOMAIN Found.rows :
              IF RowMatches(Found.rows[i], call'.email, call'.assignment_id)
              THEN /\ GradeFields(rows'[i]) = GradeFields(Found.rows[i])
                   /\ rows'[i].submission_path = Found.rows[i].submission_path
                   /\ rows'[i].student_email = Found.rows[i].student_email
                   /\ rows'[i].assignment_id = Found.rows[i].assignment_id
                   /\ rows'[i].status = call'.status
                   /\ rows'[i].submitted_at # None
                   /\ The(rows'[i].submitted_at) <= now'
              ELSE rows'[i] = Found.rows[i]
        /\ IF HasRow(Found.rows, call'.email, call'.assignment_id)
           THEN Len(rows') = Len(Found.rows)
           ELSE /\ Len(rows') = Len(Found.rows) + 1
                /\ GradeFields(rows'[Len(rows')]) = <<None, None, None>>
                /\ rows'[Len(rows')].submission_path = None

C17_StatusOnlySubmitSkipsGrading == [][C17_Step]_vars

C17_Witness ==
    /\ call.op = "submit"
    /\ call.submission = None
    /\ call.status = "submitted"
    /\ queue # <<>>
    /\ RowOf(call.email, call.assignment_id).status = "submitted"
    /\ RowOf(call.email, call.assignment_id).score # None
    /\ RowOf(call.email, call.assignment_id).submission_path # None

\* C18: submitting the empty payload {} is a payload-bearing submission: it
\* is saved and enqueued and, on an empty queue with the monitor not
\* overloaded, graded from its serialized length 2 to score 0, which leaves
\* the row completed with score 0.
C18_EmptyPayloadIsGraded ==
    (call.op = "submit" /\ call.submission = Some(<<>>)) =>
        /\ JsonLen(The(call.submission)) = 2
        /\ call.saved # None
        /\ The(call.saved) \in DOMAIN store
        /\ call.ret.grading # None
        /\ (call.pre = <<>> /\ ~Overloaded(call)) =>
              /\ Persisted(call) # None
              /\ The(Persisted(call)).score = 0
              /\ RowOf(call.email, call.assignment_id).status = "completed"
              /\ RowOf(call.email, call.assignment_id).score = Some(0)

\* C19: while the monitor reports overloaded on every call, from an empty
\* queue and ungraded rows, every payload-bearing submit returns
\* processed = false with a null result and appends its submission at the
\* tail of the queue (so the queue holds all submissions in submission
\* order), and every row then has status submitted with null score,
\* feedback and graded_at.
C19_Step ==
    Returns("submit") =>
        /\ call'.ret.grading # None
        /\ ~The(call'.ret.grading).processed
        /\ The(call'.ret.grading).result = None
        /\ call'.saved # None
        /\ call'.item # None
        /\ queue' = Append(Found.queue, The(call'.item))
        /\ \A i \in DOMAIN rows' :
              /\ rows'[i].status = "submitted"
              /\ GradeFields(rows'[i]) = <<None, None, None>>

C19_OverloadedSubmitsAccumulate == [][C19_Step]_vars

\* C20: _persist_grade is idempotent and touches one row: a call changes no
\* row other than the one of the result's (email, assignment_id), and
\* applying it again with the same result, at once or as the next call,
\* leaves every row (status, score, feedback, graded_at, submission_path)
\* exactly as the first application left it.
C20_Step ==
    Returns("_persist_grade") =>
        /\ Len(rows') = Len(Found.rows)
        /\ \A i \in DOMAIN Found.rows :
              ~RowMatches(Found.rows[i], call'.result.email, call'.result.assignment_id)
                  => rows'[i] = Found.rows[i]
        /\ PersistGrade(rows', call'.result) = rows'
        /\ handlers[Loop].again => rows' = Found.rows

C20_PersistGradeIdempotent == [][C20_Step]_vars

C20_Witness ==
    /\ call.op = "_persist_grade"
    /\ Len(rows) = 2
    /\ HasRow(rows, call.result.email, call.result.assignment_id)
    /\ RowHoldsResult(RowOf(call.result.email, call.result.assignment_id), call.result)
    /\ \E i \in DOMAIN rows :
          /\ ~RowMatches(rows[i], call.result.email, call.result.assignment_id)
          /\ rows[i].status = "submitted"
          /\ rows[i].score = None

\* C21: when saving the raw submission fails (the payload cannot be
\* serialized or the file cannot be written) submit raises to its caller
\* and leaves the queue and the table as they were: no item is enqueued and
\* no row is inserted or updated.
C21_Step ==
    /\ (Returns("submit_raised") /\ call'.fault \in SaveFaults) =>
          /\ queue' = Found.queue
          /\ rows' = Found.rows
          /\ call'.saved = None
          /\ call'.item = None
          /\ call'.sample = None
    /\ (handlers[Loop].pc = "save" /\ handlers'[Loop].pc = "raised") =>
          /\ queue' = queue
          /\ rows' = rows

C21_FailedSaveChangesNothing == [][C21_Step]_vars

C21_Witness ==
    /\ call.op = "submit_raised"
    /\ call.fault = "write"
    /\ ~HasRow(rows, call.email, call.assignment_id)
    /\ queue # <<>>
    /\ \E t \in 0..now :
          /\ SubmissionPath(call.email, call.assignment_id, t) \in DOMAIN store
          /\ store[SubmissionPath(call.email, call.assignment_id, t)] = TornFile

\* The queue the call c found with the item c appended at its tail: what
\* its enqueue drains from.
Appended(c) == Append(c.pre, The(c.item))

\* The grade fields row i had when the returning call began, null for a
\* row the call inserted.
OldGradeFields(i) ==
    IF i \in DOMAIN Found.rows THEN GradeFields(Found.rows[i]) ELSE <<None, None, None>>

\* The delivery of grades, step by step.  When _persist_grade fails after
\* the head was dequeued and graded, the item is not put back (the queue is
\* the drained one) and no row receives the grade.  A grade reaches a row
\* only in the step that persists the result of the item the same call
\* dequeued, or in a _persist_grade by hand of the result the process_next
\* before it returned for the head it removed; a call that raised hands no
\* result on, and persisting a result again changes no row.
DeliveryStep ==
    /\ (Returns("submit_raised") /\ call'.lost # None) =>
          /\ call'.fault \in PersistFaults
          /\ call'.lost = Some(Graded(Head(Appended(call')), The(call'.lost).graded_at))
          /\ queue' = Tail(Appended(call'))
          /\ \A i \in DOMAIN rows' : GradeFields(rows'[i]) = OldGradeFields(i)
          /\ \A i \in DOMAIN Found.rows :
                IF RowMatches(Found.rows[i], call'.email, call'.assignment_id)
                THEN rows'[i].status = call'.status
                ELSE rows'[i] = Found.rows[i]
    /\ (Returns("submit_raised") /\ call'.lost = None) =>
          /\ call'.fault \in ({"connect"} \cup SaveFaults \cup UpsertFaults)
          /\ rows' = Found.rows
          /\ queue' = Found.queue
    /\ (Returns("raised") /\ call'.in = "_persist_grade") =>
          /\ rows' = Found.rows
          /\ queue' = Found.queue
    /\ (handlers[Loop].pc = "persist" /\ handlers'[Loop].pc = "raised") =>
          /\ rows' = rows
          /\ queue' = queue
    /\ Returns("submit") =>
          IF Persisted(call') = None
          THEN \A i \in DOMAIN rows' : GradeFields(rows'[i]) = OldGradeFields(i)
          ELSE /\ The(Persisted(call')) =
                     Graded(Head(Appended(call')), The(Persisted(call')).graded_at)
               /\ queue' = Tail(Appended(call'))
               /\ \A i \in DOMAIN rows' :
                     (GradeFields(rows'[i]) # OldGradeFields(i)) =>
                         RowMatches(rows'[i], The(Persisted(call')).email,
                                    The(Persisted(call')).assignment_id)
    /\ (Returns("process_next") /\ call'.ret # None) =>
          /\ call'.ret = Some(Graded(Head(call'.pre), The(call'.ret).graded_at))
          /\ queue' = Tail(call'.pre)
    /\ (handlers[Loop].pc = "idle" /\ handlers'[Loop].op = "_persist_grade") =>
          /\ call.op \in {"process_next", "_persist_grade"}
          /\ handlers'[Loop].ret =
                IF call.op = "process_next" THEN call.ret ELSE Some(call.result)
          /\ handlers'[Loop].again = (call.op = "_persist_grade")
    /\ \A i \in DOMAIN rows :
          (GradeFields(rows'[i]) # GradeFields(rows[i])) =>
              /\ handlers[Loop].pc = "persist"
              /\ ~lock
              /\ ~handlers[Loop].again
              /\ handlers[Loop].ret # None
              /\ RowMatches(rows[i], The(handlers[Loop].ret).email,
                            The(handlers[Loop].ret).assignment_id)
              /\ IF handlers[Loop].op = "submit"
                 THEN /\ handlers[Loop].item # None
                      /\ handlers[Loop].ret =
                            Some(Graded(The(handlers[Loop].item),
                                        The(handlers[Loop].ret).graded_at))
                      /\ queue = Tail(Append(handlers[Loop].pre, The(handlers[Loop].own)))
                 ELSE handlers[Loop].op = "_persist_grade"

\* No grade is delivered twice and a lost grade is never delivered.
LostGradeNeverDelivered == [][DeliveryStep]_vars

\* A _persist_grade has failed after an item was dequeued and graded, the
\* connection it left open holds the write lock, and the lost grade is of
\* another student's item, which was waiting at the head.
LostGradeReached ==
    /\ call.op = "submit_raised"
    /\ call.fault = "persist"
    /\ lock
    /\ call.lost # None
    /\ The(call.lost).email # call.email
    /\ HasRow(rows, The(call.lost).email, The(call.lost).assignment_id)
    /\ queue = <<The(call.item)>>

\* When the call that returns is one whose _persist_grade failed, the row
\* of the item it dequeued and graded is at status submitted with null
\* score.
RowStaysSubmitted ==
    (call' # call /\ call'.op \in {"submit_raised", "raised"} /\ call'.lost # None) =>
        \E i \in DOMAIN rows' :
            /\ RowMatches(rows'[i], The(call'.lost).email, The(call'.lost).assignment_id)
            /\ rows'[i].status = "submitted"
            /\ rows'[i].score = None

\* C22: at-most-once delivery of a grade.  If the row update in
\* _persist_grade fails after an item was dequeued and graded, the item is
\* not put back on the queue and no later operation persists that grade, so
\* the row stays at status submitted with null score until the student
\* resubmits; no grade of a queued submission is persisted more than once.
C22_Step == DeliveryStep /\ RowStaysSubmitted

C22_GradeDeliveredAtMostOnce == [][C22_Step]_vars

\* The items of the log entries of one kind, in order.
LoggedItems(kind) == [i \in DOMAIN Logged(kind) |-> Logged(kind)[i].item]

\* s is an initial segment of t.
IsPrefix(s, t) == Len(s) <= Len(t) /\ SubSeq(t, 1, Len(s)) = s

\* C23: when handlers run enqueue / process_next concurrently, their steps
\* interleaved, append plus drain behaves as one critical section: no item
\* is dequeued twice (the pops are an initial segment of the appends), no
\* handler removes from a queue another handler has just emptied (popleft
\* never raises), and the items are graded in the order they were enqueued.
C23_DrainIsCriticalSection ==
    /\ IsPrefix(LoggedItems("pop"), LoggedItems("append"))
    /\ \A h \in Handlers : handlers[h].pc # "raised"
    /\ IsPrefix(LoggedItems("grade"), LoggedItems("append"))

\* C24: save_submission never overwrites a stored submission: a save
\* returns a location no earlier save returned, also for the same email and
\* assignment within the same second, and every file stored before still
\* holds the payload that was written to it.
C24_Step ==
    (Returns("submit") /\ call'.saved # None) =>
        /\ The(call'.saved) \notin DOMAIN Found.store
        /\ \A p \in DOMAIN Found.store :
              p \in DOMAIN store' /\ store'[p] = Found.store[p]

C24_SaveNeverOverwrites == [][C24_Step]_vars

\* C25: conservation of submissions under sequential enqueue and
\* process_next calls.  The submissions removed so far are an initial
\* segment of those enqueued and the queue is exactly the rest, unchanged
\* (so none is removed twice, reappears or is mutated); every removed
\* submission yields one result and no more; popleft never fails; and
\* between calls (number enqueued) = (queue depth) + (number of results).
C25_Conservation ==
    /\ LoggedItems("append") = LoggedItems("pop") \o queue
    /\ IsPrefix(LoggedItems("grade"), LoggedItems("pop"))
    /\ Len(Logged("pop")) <= Len(Logged("grade")) + 1
    /\ \A h \in Handlers : handlers[h].pc # "raised"
    /\ (\A h \in Handlers : handlers[h].pc \in {"idle", "return"}) =>
          /\ LoggedItems("grade") = LoggedItems("pop")
          /\ Len(Logged("append")) = Len(queue) + Len(Logged("grade"))

C25_Witness ==
    /\ \A h \in Handlers : handlers[h].pc = "idle"
    /\ Len(Logged("append")) = 2
    /\ Len(Logged("grade")) = 1
    /\ Len(queue) = 1
    /\ Logged("append")[1].item # Logged("append")[2].item
    /\ call.op = "process_next"
    /\ call.ret # None

\* C26: after any sequence of submits, with or without payload, there is
\* at most one row per (student email, assignment id); a submit for a pair
\* that has a row updates that row and adds none, a submit for a new pair
\* adds exactly one.
C26_Step ==
    /\ \A i, j \in DOMAIN rows' :
          RowMatches(rows'[i], rows'[j].student_email, rows'[j].assignment_id)
              => i = j
    /\ Returns("submit") =>
          /\ HasRow(rows', call'.email, call'.assignment_id)
          /\ Len(rows') = IF HasRow(Found.rows, call'.email, call'.assignment_id)
                          THEN Len(Found.rows) ELSE Len(Found.rows) + 1

C26_OneRowPerPair == [][C26_Step]_vars

C26_Witness ==
    /\ call.op = "submit"
    /\ call.submission = None
    /\ Len(rows) = 2
    /\ rows[1].student_email # rows[2].student_email
    /\ RowOf(call.email, call.assignment_id).submission_path # None
    /\ RowOf(call.email, call.assignment_id).status = call.status

\* The outcome of the enqueue a call made, if it made one.
Enqueued(c) ==
    IF c.op = "enqueue" THEN Some(c.ret)
    ELSE IF c.op = "submit" THEN c.ret.grading
    ELSE None

\* C27: across submit / enqueue calls only, the queue depth never
\* decreases: an enqueue leaves the depth as it was when it drained and one
\* higher when it was deferred, a call that enqueues nothing leaves the
\* queue alone; so a queue that holds a deferred submission is never empty
\* again, and a backlog stays as deep as it is while the monitor is not
\* overloaded.
C27_Step ==
    /\ (Returns("submit") \/ Returns("enqueue")) =>
          /\ Len(queue') >= Len(Found.queue)
          /\ (Found.queue # <<>>) => (queue' # <<>>)
          /\ IF Enqueued(call') = None
             THEN queue' = Found.queue
             ELSE /\ Len(queue') = IF The(Enqueued(call')).processed
                                   THEN Len(Found.queue) ELSE Len(Found.queue) + 1
                  /\ The(Enqueued(call')).processed <=> ~Overloaded(call')
    /\ Len(queue') < Len(queue) =>
          /\ handlers[Loop].own # None
          /\ Len(queue') = Len(handlers[Loop].pre)

C27_DepthNeverDecreases == [][C27_Step]_vars

C27_Witness ==
    /\ call.op = "enqueue"
    /\ call.ret.processed
    /\ call.pre # <<>>
    /\ Len(queue) = Len(call.pre)
    /\ queue[Len(queue)] = call.item
    /\ The(call.ret.result).email # call.item.email

\* C28: when the queue holds a backlog whose head belongs to another
\* (email, assignment_id), a payload-bearing submit under a monitor that is
\* not overloaded grades the head and not the submission just made: the
\* returned result carries the head's email, assignment_id, score and
\* feedback, the head's row is completed, and the caller's submission stays
\* queued, at the tail, with its row at status submitted.
C28_SubmitGradesBacklogHead ==
    (/\ call.op = "submit"
     /\ call.submission # None
     /\ call.pre # <<>>
     /\ ~(Head(call.pre).email = call.email
          /\ Head(call.pre).assignment_id = call.assignment_id)
     /\ ~Overloaded(call)) =>
        /\ Persisted(call) # None
        /\ The(Persisted(call)).email = Head(call.pre).email
        /\ The(Persisted(call)).assignment_id = Head(call.pre).assignment_id
        /\ The(Persisted(call)).score = Grade(Head(call.pre).submission).score
        /\ The(Persisted(call)).feedback = Grade(Head(call.pre).submission).feedback
        /\ RowOf(Head(call.pre).email, Head(call.pre).assignment_id).status = "completed"
        /\ queue # <<>>
        /\ queue[Len(queue)].email = call.email
        /\ queue[Len(queue)].assignment_id = call.assignment_id
        /\ queue[Len(queue)].submission = The(call.submission)
        /\ RowOf(call.email, call.assignment_id).status = "submitted"

\* C29: in every state the calls reach (no call under way) a completed row
\* holds a score and a submission_path that derive from the same submission:
\* the score is the heuristic grade of the payload stored at the row's
\* submission_path, also when the student resubmitted while an earlier
\* submission was queued.
C29_ScoreIsGradeOfStoredPayload ==
    \A i \in DOMAIN rows :
        (Quiet /\ rows[i].status = "completed") =>
            /\ rows[i].score # None
            /\ rows[i].submission_path # None
            /\ The(rows[i].submission_path).str \in DOMAIN store
            /\ The(rows[i].score) =
                   Grade(store[The(rows[i].submission_path).str]).score

\* The items the requests of the model put on the queue.
QueueItems ==
    {Item(req.email, req.assignment_id, The(req.submission),
          SubmissionPath(req.email, req.assignment_id, ts), t) :
        req \in {r \in ClockRequests : Truthy(r.submission)},
        ts \in 0..MaxTime, t \in 0..MaxTime}

\* The last call produced the grading result of the item it.
GradedBy(c, it) ==
    \E r \in (IF c.op = "process_next" THEN c.ret ELSE Persisted(c)) :
        \E t \in 0..MaxTime : r = Graded(it, t)

C30_Step ==
    /\ (Returns("process_next") /\ call'.pre # <<>> /\ ~Overloaded(call')) =>
          /\ queue' = Tail(call'.pre)
          /\ call'.ret # None
          /\ call'.ret = Some(Graded(Head(call'.pre), The(call'.ret).graded_at))
          /\ The(call'.ret).graded_at <= now'
    /\ (Returns("process_next") /\ (call'.pre = <<>> \/ Overloaded(call'))) =>
          /\ queue' = call'.pre
          /\ call'.ret = None
    /\ Returns("_persist_grade") =>
          /\ HasRow(rows', call'.result.email, call'.result.assignment_id)
          /\ \A i \in DOMAIN rows' :
                RowMatches(rows'[i], call'.result.email, call'.result.assignment_id)
                    => RowHoldsResult(rows'[i], call'.result)

\* C30: manual draining makes progress.  Every process_next that is not
\* overloaded removes the head and returns its result, so k such calls
\* empty a queue of k items and return the k results in enqueue order, and
\* persisting a result leaves its row completed; and when such calls keep
\* happening, every queued submission is eventually graded.
C30_DrainingMakesProgress ==
    /\ [][C30_Step]_vars
    /\ \A it \in QueueItems :
          (\E i \in DOMAIN queue : queue[i] = it) ~> GradedBy(call, it)

C30_Witness ==
    /\ call.op = "_persist_grade"
    /\ queue = <<>>
    /\ Len(rows) = 1
    /\ \A i \in DOMAIN rows : rows[i].status = "completed" /\ rows[i].score # None
    /\ RowHoldsResult(RowOf(call.result.email, call.result.assignment_id), call.result)
    /\ store # <<>>

====
